---- MODULE Spec2Model ----
(***************************************************************************)
(* A model of server.js: an Express proxy in front of the Companies House  *)
(* API.  One inbound request runs synchronously through the middleware     *)
(* chain (cors, rate limit, shared-secret auth) into its route handler and *)
(* either is answered at once or suspends at `await fetch(...)`.  The      *)
(* handler's continuations (`await r.text()`, `await r.json()`) run when    *)
(* the upstream call settles.  JavaScript runs each of these pieces to     *)
(* completion, so each is one action.                                      *)
(***************************************************************************)
EXTENDS Integers, Sequences, FiniteSets, TLC

VARIABLES
    cfg,      \* the configuration read at start-up: SHARED_SECRET, ORIGINS, AUTH_HEADER
    hits,     \* the rate limiter's Map: req.ip -> {count, ts}
    now,      \* Date.now()
    slot,     \* the requests in flight: one record per connection
    seen      \* history: per caller, the requests the limiter has handled since its window began

vars == <<cfg, hits, now, slot, seen>>

(***************************************************************************)
(* Program constants.                                                      *)
(***************************************************************************)
WINDOW_MS == 60000
MAX_REQS == 60

(***************************************************************************)
(* Bounds of the model.                                                    *)
(***************************************************************************)
\* Date.now() is explored up to MaxSkew ms past 0 and past WINDOW_MS.
MaxSkew == 1
\* A caller is followed up to MaxOver requests past MAX_REQS in one window.
MaxOver == 2
\* A caller that starts a window is followed for MaxBurst requests in it ...
MaxBurst == 2
\* ... or from MaxLead requests short of MAX_REQS.
MaxLead == 1

Callers == {"10.0.0.1", "10.0.0.2"}
Slots == {"c1", "c2"}

(***************************************************************************)
(* JavaScript values.                                                      *)
(***************************************************************************)
\* `undefined`: a missing header, query parameter or environment variable.
Undefined == "<undefined>"

\* !x for the strings and undefined the program tests.
Falsy(x) == x = Undefined \/ x = ""

\* a || b
Or(a, b) == IF Falsy(a) THEN b ELSE a

HeaderNames == {"x-ch-secret", "X-CH-Secret", "X-CH-SECRET"}

\* String.prototype.toLowerCase on the header names in use.
ToLowerCase(n) == IF n \in HeaderNames THEN "x-ch-secret" ELSE n

\* String.prototype.toUpperCase on the header names in use.
ToUpperCase(n) == IF n \in HeaderNames THEN "X-CH-SECRET" ELSE n

\* obj[name]: undefined when the object has no such key.
Get(obj, name) == IF name \in DOMAIN obj THEN obj[name] ELSE Undefined

\* req.headers: Node stores each header under its lower-cased name.
Headers(name, value) ==
    IF value = Undefined THEN <<>> ELSE (ToLowerCase(name) :> value)

(***************************************************************************)
(* Responses.                                                              *)
(***************************************************************************)
NoResp == [status |-> 0, body |-> [none |-> TRUE]]

Json(status, body) == [status |-> status, body |-> body]

RateLimited == Json(429, [error |-> "Rate limit exceeded"])
NotConfigured == Json(500, [error |-> "Server not configured (missing SHARED_SECRET)"])
Unauthorised == Json(401, [error |-> "Unauthorised"])
HealthOk == Json(200, [ok |-> TRUE])
EmptyItems == Json(200, [items |-> <<>>])
NoCompanyNumber == Json(400, [error |-> "No company number"])
\* Mutant: the upstream status is not forwarded.
ChErrorBadGateway(status, text) == Json(502, [error |-> "CH error", detail |-> text])

\* res.status(r.status).json({ error: 'CH error', detail: text })
ChError(status, text) == Json(status, [error |-> "CH error", detail |-> text])

\* cors hands the origin callback's error to next(err): Express answers 500.
CorsRejected(origin) == Json(500, [cors |-> origin])

(***************************************************************************)
(* The middleware chain.                                                   *)
(***************************************************************************)
\* corsOptions.origin
OriginAllowed(origin) ==
    Falsy(origin) \/ cfg.ORIGINS = {} \/ origin \in cfg.ORIGINS

\* hits.get(key) || { count: 0, ts: now }
EntryOf(h, key, t) ==
    IF key \in DOMAIN h THEN h[key] ELSE [count |-> 0, ts |-> t]

\* Mutant: the window is taken to end one millisecond early.
WindowElapsedAtEnd(entry, t) == t - entry.ts >= WINDOW_MS

\* if (now - entry.ts > WINDOW_MS) { entry.count = 0; entry.ts = now; }
WindowElapsed(entry, t) == t - entry.ts > WINDOW_MS

\* The rate limiter up to hits.set(key, entry): the entry as stored.
Counted(h, key, t) ==
    LET entry == EntryOf(h, key, t)
        fresh == IF WindowElapsed(entry, t) THEN [count |-> 0, ts |-> t] ELSE entry
    IN  [fresh EXCEPT !.count = @ + 1]

\* Mutant: the entry is stored only for a caller the table does not hold yet.
HitsSetIfAbsent(h, key, entry) ==
    IF key \in DOMAIN h THEN h ELSE [k \in DOMAIN h \cup {key} |-> IF k = key THEN entry ELSE h[k]]

\* hits.set(key, entry)
HitsSet(h, key, entry) ==
    [k \in DOMAIN h \cup {key} |-> IF k = key THEN entry ELSE h[k]]

\* Mutant: the request that reaches the limit is refused.
OverLimitAtLimit(entry) == entry.count >= MAX_REQS

\* if (entry.count > MAX_REQS) return res.status(429)...
OverLimit(entry) == entry.count > MAX_REQS

\* const token = req.headers[AUTH_HEADER] || req.headers[lower] || req.headers[upper]
Token(headers) ==
    Or(Or(Get(headers, cfg.AUTH_HEADER), Get(headers, ToLowerCase(cfg.AUTH_HEADER))),
       Get(headers, ToUpperCase(cfg.AUTH_HEADER)))

\* Mutant: the check for a configured secret is missing.
AuthNoConfigCheck(req) ==
    IF req.path = "/health" THEN [next |-> TRUE, resp |-> NoResp]
    ELSE LET token == Token(req.headers)
         IN  IF Falsy(token) \/ token # cfg.SHARED_SECRET
             THEN [next |-> FALSE, resp |-> Unauthorised]
             ELSE [next |-> TRUE, resp |-> NoResp]

\* Mutant: any token that is present is accepted.
AuthPresenceOnly(req) ==
    IF req.path = "/health" THEN [next |-> TRUE, resp |-> NoResp]
    ELSE IF Falsy(cfg.SHARED_SECRET) THEN [next |-> FALSE, resp |-> NotConfigured]
    ELSE IF Falsy(Token(req.headers))
         THEN [next |-> FALSE, resp |-> Unauthorised]
         ELSE [next |-> TRUE, resp |-> NoResp]

\* The auth middleware: "next", or the response it sends.
Auth(req) ==
    IF req.path = "/health" THEN [next |-> TRUE, resp |-> NoResp]
    ELSE IF Falsy(cfg.SHARED_SECRET) THEN [next |-> FALSE, resp |-> NotConfigured]
    ELSE LET token == Token(req.headers)
         IN  IF Falsy(token) \/ token # cfg.SHARED_SECRET
             THEN [next |-> FALSE, resp |-> Unauthorised]
             ELSE [next |-> TRUE, resp |-> NoResp]

(***************************************************************************)
(* The route handlers, up to their first await.                            *)
(***************************************************************************)
Respond(resp) == [fetch |-> FALSE, resp |-> resp]
CallUpstream == [fetch |-> TRUE, resp |-> NoResp]

\* GET /health
Health(req) == Respond(HealthOk)

\* Mutant: a search term of two characters is let through.
SearchStartTwoChars(req) ==
    LET q == Or(req.arg, "")
    IN  IF Falsy(q) \/ Len(q) < 2 THEN Respond(EmptyItems) ELSE CallUpstream

\* GET /companies-house/search, lines 68-69
SearchStart(req) ==
    LET q == Or(req.arg, "")
    IN  IF Falsy(q) \/ Len(q) < 3 THEN Respond(EmptyItems) ELSE CallUpstream

\* GET /companies-house/:number/officers, lines 95-96
OfficersStart(req) ==
    LET number == Or(req.arg, "")
    IN  IF Falsy(number) THEN Respond(EmptyItems) ELSE CallUpstream

\* GET /companies-house/:number, lines 121-122
DetailStart(req) ==
    LET number == Or(req.arg, "")
    IN  IF Falsy(number) THEN Respond(NoCompanyNumber) ELSE CallUpstream

\* Express's router: the first route registered that matches the path.
Route(req) ==
    CASE req.path = "/health" -> Health(req)
      [] req.path = "/companies-house/search" -> SearchStart(req)
      [] req.path = "/companies-house/:number/officers" -> OfficersStart(req)
      [] req.path = "/companies-house/:number" -> DetailStart(req)

(***************************************************************************)
(* The handlers' continuations.                                            *)
(***************************************************************************)
\* r.ok of node-fetch: a 2xx status.
Ok(status) == status >= 200 /\ status <= 299

\* An object's fields as JSON.stringify writes them: an undefined field is left out.
Pick(x, fields) ==
    [f \in {g \in DOMAIN fields : fields[g] \in DOMAIN x} |-> x[fields[f]]]

SearchFields ==
    [title |-> "title", company_number |-> "company_number",
     company_status |-> "company_status", address_snippet |-> "address_snippet"]

OfficerFields ==
    [name |-> "name", appointed_on |-> "appointed_on",
     resigned_on |-> "resigned_on", role |-> "officer_role"]

\* data.items || []
ItemsOf(data) == IF "items" \in DOMAIN data THEN data.items ELSE <<>>

\* (data.items || []).map(...)
Project(data, fields) ==
    [i \in DOMAIN ItemsOf(data) |-> Pick(ItemsOf(data)[i], fields)]

\* What each handler sends once r.json() has resolved.
Success(path, data) ==
    CASE path = "/companies-house/search" ->
             Json(200, [items |-> Project(data, SearchFields)])
      [] path = "/companies-house/:number/officers" ->
             Json(200, [items |-> Project(data, OfficerFields)])
      [] path = "/companies-house/:number" -> Json(200, data)

\* Mutant: the detail handler's catch block answers like the other two.
FallbackItemsEverywhere(path) == Json(500, [items |-> <<>>])

\* What each handler's catch block sends.
Fallback(path) ==
    CASE path = "/companies-house/search" -> Json(500, [items |-> <<>>])
      [] path = "/companies-house/:number/officers" -> Json(500, [items |-> <<>>])
      [] path = "/companies-house/:number" ->
             Json(500, [error |-> "Failed to fetch company details"])

(***************************************************************************)
(* One request's synchronous run through the chain: cors, the rate        *)
(* limiter, auth, the route handler up to its first await.                 *)
(***************************************************************************)
\* Mutant: the auth middleware is registered before the rate limiter.
PipelineAuthFirst(req) ==
    IF ~OriginAllowed(req.origin) \/ ~Auth(req).next
    THEN [counted |-> FALSE, entry |-> EntryOf(hits, req.ip, now), fetch |-> FALSE,
          resp |-> IF ~OriginAllowed(req.origin) THEN CorsRejected(req.origin)
                   ELSE Auth(req).resp]
    ELSE LET entry == Counted(hits, req.ip, now)
             out == IF OverLimit(entry) THEN Respond(RateLimited) ELSE Route(req)
         IN  [counted |-> TRUE, entry |-> entry, fetch |-> out.fetch, resp |-> out.resp]

\* app.use(cors), app.use(rate limit), app.use(auth), app.get(...): in this order.
Pipeline(req) ==
    IF ~OriginAllowed(req.origin)
    THEN [counted |-> FALSE, entry |-> EntryOf(hits, req.ip, now),
          fetch |-> FALSE, resp |-> CorsRejected(req.origin)]
    ELSE LET entry == Counted(hits, req.ip, now)
             out == IF OverLimit(entry) THEN Respond(RateLimited)
                    ELSE IF ~Auth(req).next THEN Respond(Auth(req).resp)
                    ELSE Route(req)
         IN  [counted |-> TRUE, entry |-> entry, fetch |-> out.fetch, resp |-> out.resp]

(***************************************************************************)
(* State.                                                                  *)
(***************************************************************************)
NoReq == [ip |-> "", origin |-> Undefined, path |-> "", headers |-> <<>>, arg |-> Undefined]

\* A connection with no request on it.
Idle ==
    [pc |-> "idle", req |-> NoReq, nth |-> 0, status |-> 0, text |-> Undefined,
     resp |-> NoResp, nresp |-> 0, called |-> FALSE, fail |-> "none"]

\* The caller's window as the limiter's contract describes it: a request that
\* arrives more than 60 s after the window's start begins a new window.
SeenAfter(ip) ==
    IF seen[ip].n = 0 \/ now - seen[ip].since > 60000
    THEN [n |-> 1, since |-> now]
    ELSE [n |-> seen[ip].n + 1, since |-> seen[ip].since]

\* The process after start-up, under configuration c: nothing counted yet.
Started(c) ==
    /\ cfg = c
    /\ hits = <<>>
    /\ now = 0
    /\ slot = [s \in Slots |-> Idle]
    /\ seen = [ip \in Callers |-> [n |-> 0, since |-> 0]]

\* The process after each caller of `warm` has sent n requests at time 0.
Warmed(c, warm, n) ==
    /\ cfg = c
    /\ hits = [ip \in warm |-> [count |-> n, ts |-> 0]]
    /\ now = 0
    /\ slot = [s \in Slots |-> Idle]
    /\ seen = [ip \in Callers |-> [n |-> IF ip \in warm THEN n ELSE 0, since |-> 0]]

(***************************************************************************)
(* Actions.                                                                *)
(***************************************************************************)
\* A request arrives on connection s and runs until it is answered or awaits fetch.
Arrive(s, req) ==
    /\ slot[s].pc \in {"idle", "done"}
    /\ LET p == Pipeline(req)
       IN  /\ hits' = IF p.counted THEN HitsSet(hits, req.ip, p.entry) ELSE hits
           /\ seen' = IF p.counted THEN [seen EXCEPT ![req.ip] = SeenAfter(req.ip)] ELSE seen
           /\ slot' = [slot EXCEPT ![s] =
                         [pc |-> IF p.fetch THEN "fetch" ELSE "done",
                          req |-> req,
                          nth |-> IF p.counted THEN SeenAfter(req.ip).n ELSE 0,
                          status |-> 0,
                          text |-> Undefined,
                          resp |-> p.resp,
                          nresp |-> IF p.fetch THEN 0 ELSE 1,
                          called |-> p.fetch,
                          fail |-> "none"]]
    /\ UNCHANGED <<cfg, now>>

\* Mutant: the catch block logs and sends nothing.
CaughtLogOnly(s, what) == [slot[s] EXCEPT !.pc = "done", !.fail = what]

\* The handler's catch block: log, answer with the fallback.
Caught(s, what) ==
    [slot[s] EXCEPT !.pc = "done", !.resp = Fallback(slot[s].req.path),
                    !.nresp = @ + 1, !.fail = what]

\* await fetch(...) resolves with an upstream response of this status.
FetchResolved(s, status) ==
    /\ slot[s].pc = "fetch"
    /\ slot' = [slot EXCEPT ![s] =
                  [@ EXCEPT !.pc = IF Ok(status) THEN "json" ELSE "text", !.status = status]]
    /\ UNCHANGED <<cfg, hits, now, seen>>

\* await fetch(...) rejects: a network error.
FetchRejected(s) ==
    /\ slot[s].pc = "fetch"
    /\ slot' = [slot EXCEPT ![s] = Caught(s, "fetch")]
    /\ UNCHANGED <<cfg, hits, now, seen>>

\* await r.text() resolves: return res.status(r.status).json({error, detail}).
TextResolved(s, text) ==
    /\ slot[s].pc = "text"
    /\ slot' = [slot EXCEPT ![s] =
                  [@ EXCEPT !.pc = "done", !.text = text,
                            !.resp = ChError(slot[s].status, text), !.nresp = @ + 1]]
    /\ UNCHANGED <<cfg, hits, now, seen>>

\* await r.text() rejects: the body could not be read.
TextRejected(s) ==
    /\ slot[s].pc = "text"
    /\ slot' = [slot EXCEPT ![s] = Caught(s, "text")]
    /\ UNCHANGED <<cfg, hits, now, seen>>

\* await r.json() resolves: project and answer.
JsonResolved(s, data) ==
    /\ slot[s].pc = "json"
    /\ slot' = [slot EXCEPT ![s] =
                  [@ EXCEPT !.pc = "done",
                            !.resp = Success(slot[s].req.path, data), !.nresp = @ + 1]]
    /\ UNCHANGED <<cfg, hits, now, seen>>

\* await r.json() rejects: the body is not JSON.
JsonRejected(s) ==
    /\ slot[s].pc = "json"
    /\ slot' = [slot EXCEPT ![s] = Caught(s, "json")]
    /\ UNCHANGED <<cfg, hits, now, seen>>

\* Time passes: Date.now() returns d more (the clock does not run backwards).
Tick(d) ==
    /\ now + d <= WINDOW_MS + MaxSkew
    /\ d = 1 => now % WINDOW_MS < MaxSkew
    /\ now' = now + d
    /\ UNCHANGED <<cfg, hits, slot, seen>>

(***************************************************************************)
(* The environment: configurations, requests, upstream answers.            *)
(***************************************************************************)
Secret == "s3cret"
AppOrigin == "https://app.example"
EvilOrigin == "https://evil.example"

Paths ==
    {"/health", "/companies-house/search", "/companies-house/:number/officers",
     "/companies-house/:number"}

\* What a caller can put in ?q= or in :number.
Args(path) ==
    CASE path = "/health" -> {Undefined}
      [] path = "/companies-house/search" -> {Undefined, "", "ab", "abc"}
      [] OTHER -> {"", "00000006"}

\* A request as Express hands it to the chain; the caller names the header as it likes.
Request(ip, origin, path, token, arg) ==
    [ip |-> ip, origin |-> origin, path |-> path,
     headers |-> Headers("X-CH-Secret", token), arg |-> arg]

Configs(secrets, origins, headers) ==
    [SHARED_SECRET : secrets, ORIGINS : origins, AUTH_HEADER : headers]

Requests(ips, origins, paths, tokens) ==
    {Request(ip, o, p, t, a) : ip \in ips, o \in origins, t \in tokens,
                                 <<p, a>> \in {<<pp, aa>> \in paths \X {Undefined, "", "ab", "abc", "00000006"} :
                                                  aa \in Args(pp)}}

UpstreamStatuses == {200, 404, 503}
UpstreamTexts == {"not found", ""}

SearchHit ==
    [title |-> "Acme Ltd", company_number |-> "123", company_status |-> "active",
     address_snippet |-> "1 Road", kind |-> "searchresults#company"]
Officer ==
    [name |-> "DOE, Jane", appointed_on |-> "2020-01-01", officer_role |-> "director",
     nationality |-> "British"]
UpstreamData ==
    {[items |-> <<SearchHit>>], [items |-> <<Officer>>], [company_name |-> "Acme Ltd"]}

\* The requests of caller ip counted in its current window, were one to arrive now.
InWindow(ip) ==
    LET entry == EntryOf(hits, ip, now)
    IN  IF WindowElapsed(entry, now) THEN 0 ELSE entry.count

\* The model follows a caller through its whole window and MaxOver past the limit.
FollowedThrough(ip) == InWindow(ip) < MAX_REQS + MaxOver

\* The model follows a caller at the start of a window and around the limit.
FollowedNear(ip) ==
    \/ InWindow(ip) < MaxBurst
    \/ InWindow(ip) >= MAX_REQS - MaxLead /\ InWindow(ip) < MAX_REQS + MaxOver

(***************************************************************************)
(* Spec: the whole proxy: one caller on two connections, behind an origin  *)
(* allow-list, at the start of a window or with its window used up.        *)
(***************************************************************************)
SpecConfigs == Configs({"", Secret}, {{AppOrigin}}, {"x-ch-secret", "X-CH-Secret"})
SpecRequests ==
    Requests({"10.0.0.1"}, {Undefined}, Paths, {Undefined, Secret, "wrong"})
        \cup {Request("10.0.0.1", EvilOrigin, "/companies-house/search", Secret, "abc")}

Init ==
    \E c \in SpecConfigs : Started(c) \/ Warmed(c, {"10.0.0.1"}, MAX_REQS)

Next ==
    \/ \E s \in Slots, req \in SpecRequests : FollowedNear(req.ip) /\ Arrive(s, req)
    \/ \E s \in Slots, status \in UpstreamStatuses : FetchResolved(s, status)
    \/ \E s \in Slots : FetchRejected(s)
    \/ \E s \in Slots, text \in UpstreamTexts : TextResolved(s, text)
    \/ \E s \in Slots : TextRejected(s)
    \/ \E s \in Slots, data \in UpstreamData : JsonResolved(s, data)
    \/ \E s \in Slots : JsonRejected(s)

Spec == Init /\ [][Next]_vars

(***************************************************************************)
(* SpecWindow: one caller followed through a whole window of the limiter,  *)
(* with requests that are answered without an upstream call.               *)
(***************************************************************************)
WindowConfigs == Configs({"", Secret}, {{}}, {"x-ch-secret"})
WindowRequests ==
    Requests({"10.0.0.1"}, {Undefined}, {"/health", "/companies-house/search"},
             {Secret, "wrong"})
        \ {r \in Requests({"10.0.0.1"}, {Undefined}, {"/companies-house/search"},
                          {Secret, "wrong"}) : r.arg # "ab"}
TickSteps == {1, WINDOW_MS}

InitWindow == \E c \in WindowConfigs : Started(c)

NextWindow ==
    \/ \E req \in WindowRequests : FollowedThrough(req.ip) /\ Arrive("c1", req)
    \/ \E d \in TickSteps : Tick(d)

SpecWindow == InitWindow /\ [][NextWindow]_vars

(***************************************************************************)
(* SpecLimiter: two callers, each at the start of a window or close to the *)
(* limit, behind an origin allow-list.                                     *)
(***************************************************************************)
LimiterConfigs == Configs({"", Secret}, {{AppOrigin}}, {"x-ch-secret"})
LimiterRequests ==
    {r \in Requests(Callers, {Undefined, EvilOrigin},
                    {"/health", "/companies-house/search"}, {Secret, "wrong"}) :
        r.arg \in {Undefined, "ab"}}

InitLimiter ==
    \E c \in LimiterConfigs, warm \in SUBSET Callers : Warmed(c, warm, MAX_REQS - MaxLead)

NextLimiter ==
    \/ \E req \in LimiterRequests : FollowedNear(req.ip) /\ Arrive("c1", req)
    \/ \E d \in TickSteps : Tick(d)

SpecLimiter == InitLimiter /\ [][NextLimiter]_vars

(***************************************************************************)
(* FairSpec: two callers on two connections, their handlers suspended at   *)
(* the awaits while other requests run; every upstream call settles.  One  *)
(* caller may have used up its window.                                     *)
(***************************************************************************)
FairConfigs == Configs({Secret}, {{AppOrigin}}, {"x-ch-secret"})
FairRequests ==
    {r \in Requests(Callers, {Undefined, EvilOrigin},
                    {"/companies-house/search", "/companies-house/:number"},
                    {Secret, "wrong"}) :
        /\ r.arg \in {"ab", "abc", "00000006"}
        /\ r.origin = EvilOrigin => r.headers = <<>> \/ r.arg = "abc"}
FairStatuses == {200, 404}
FairTexts == {"not found"}
FairData == {[items |-> <<SearchHit>>]}

InitFair ==
    \E c \in FairConfigs : Started(c) \/ Warmed(c, {"10.0.0.1"}, MAX_REQS)

NextFair ==
    \/ \E s \in Slots, req \in FairRequests : FollowedNear(req.ip) /\ Arrive(s, req)
    \/ \E s \in Slots, status \in FairStatuses : FetchResolved(s, status)
    \/ \E s \in Slots : FetchRejected(s)
    \/ \E s \in Slots, text \in FairTexts : TextResolved(s, text)
    \/ \E s \in Slots : TextRejected(s)
    \/ \E s \in Slots, data \in FairData : JsonResolved(s, data)
    \/ \E s \in Slots : JsonRejected(s)

\* The upstream call of connection s settles: fetch, r.text() or r.json() resolves or rejects.
Settles(s) ==
    \/ \E status \in FairStatuses : FetchResolved(s, status)
    \/ FetchRejected(s)
    \/ \E text \in FairTexts : TextResolved(s, text)
    \/ TextRejected(s)
    \/ \E data \in FairData : JsonResolved(s, data)
    \/ JsonRejected(s)

FairSpec == InitFair /\ [][NextFair]_vars /\ \A s \in Slots : WF_vars(Settles(s))

(***************************************************************************)
(* Properties.                                                             *)
(***************************************************************************)
Pending(s) == slot[s].pc \in {"fetch", "text", "json"}
Answered(s) == slot[s].pc = "done"

\* The value the request carries in the configured header (Node lower-cases its name).
SentToken(s) == Get(slot[s].req.headers, "x-ch-secret")

\* The request passed the origin check of section 4.1.
OriginPermitted(s) ==
    \/ slot[s].req.origin = Undefined
    \/ cfg.ORIGINS = {}
    \/ slot[s].req.origin \in cfg.ORIGINS

TooMany == [status |-> 429, body |-> [error |-> "Rate limit exceeded"]]
MissingSecret ==
    [status |-> 500, body |-> [error |-> "Server not configured (missing SHARED_SECRET)"]]
BadToken == [status |-> 401, body |-> [error |-> "Unauthorised"]]
Alive == [status |-> 200, body |-> [ok |-> TRUE]]
NoItems == [status |-> 200, body |-> [items |-> <<>>]]
NoNumber == [status |-> 400, body |-> [error |-> "No company number"]]

\* The request got past the three guards and ran its route handler.
HandlerRan(s) ==
    \/ Pending(s)
    \/ Answered(s) /\ OriginPermitted(s) /\ slot[s].resp \notin {TooMany, MissingSecret, BadToken}

\* C1: of one caller's requests in one 60 s window the first 60 are passed on and
\* every later one (the 61st) is answered 429 {error: "Rate limit exceeded"}; the
\* first request after the window has elapsed is the first of a new window and is
\* passed on.  (nth is the request's number in its caller's window.)
C1_SixtyPerWindow ==
    \A s \in Slots :
        slot[s].nth > 0 =>
            /\ slot[s].nth <= 60 => slot[s].resp.status # 429
            /\ slot[s].nth > 60 => Answered(s) /\ slot[s].resp = TooMany

\* C1's case: the 61st request, sent at the very end of the window, is refused.
C1_Witness ==
    /\ now = 60000
    /\ slot["c1"].nth = 61
    /\ seen[slot["c1"].req.ip].since = 0
    /\ slot["c1"].resp = TooMany

\* C2, as stated: with no shared secret configured, every request that is not
\* over the rate limit is answered 500 "Server not configured" whatever its token,
\* runs no handler and makes no upstream call, unless it asks for /health, which
\* answers 200 {ok: true}.
C2_AsStated ==
    cfg.SHARED_SECRET = "" =>
        \A s \in Slots :
            slot[s].pc # "idle" /\ slot[s].resp # TooMany =>
                IF slot[s].req.path = "/health"
                THEN Answered(s) /\ slot[s].resp = Alive
                ELSE Answered(s) /\ slot[s].resp = MissingSecret /\ ~slot[s].called

\* C2, amended: with no shared secret configured, every request that passes the
\* origin check and is not over the rate limit is answered 500 "Server not
\* configured" whatever its token, runs no handler and makes no upstream call,
\* unless it asks for /health, which answers 200 {ok: true}.
C2_NotConfigured ==
    cfg.SHARED_SECRET = "" =>
        \A s \in Slots :
            slot[s].pc # "idle" /\ OriginPermitted(s) /\ slot[s].resp # TooMany =>
                IF slot[s].req.path = "/health"
                THEN Answered(s) /\ slot[s].resp = Alive
                ELSE Answered(s) /\ slot[s].resp = MissingSecret /\ ~slot[s].called

\* C2's case: a search with a token is refused with 500 while /health answers 200.
C2_Witness ==
    /\ cfg.SHARED_SECRET = ""
    /\ slot["c1"].req.path = "/companies-house/search"
    /\ slot["c1"].req.arg = "abc"
    /\ SentToken("c1") = Secret
    /\ slot["c1"].resp = MissingSecret
    /\ slot["c2"].req.path = "/health"
    /\ slot["c2"].resp = Alive

\* C3, as stated: with a shared secret configured, a request for a path other
\* than /health runs a handler only if its token equals the secret; a request
\* whose token is absent or differs is answered 401 {error: "Unauthorised"} and
\* makes no upstream call.
C3_AsStated ==
    cfg.SHARED_SECRET # "" =>
        \A s \in Slots :
            slot[s].pc # "idle" /\ slot[s].req.path # "/health" =>
                /\ HandlerRan(s) => SentToken(s) = cfg.SHARED_SECRET
                /\ SentToken(s) # cfg.SHARED_SECRET =>
                       Answered(s) /\ slot[s].resp = BadToken /\ ~slot[s].called

\* C3, amended: with a shared secret configured, a request for a path other than
\* /health runs a handler, and makes an upstream call, only if its token equals
\* the secret; a request whose token is absent or differs makes no upstream call
\* and, when it passes the origin check and is not over the rate limit, is
\* answered 401 {error: "Unauthorised"}.
C3_TokenRequired ==
    cfg.SHARED_SECRET # "" =>
        \A s \in Slots :
            slot[s].pc # "idle" /\ slot[s].req.path # "/health" =>
                /\ HandlerRan(s) \/ slot[s].called => SentToken(s) = cfg.SHARED_SECRET
                /\ SentToken(s) # cfg.SHARED_SECRET =>
                       /\ Answered(s) /\ ~slot[s].called
                       /\ OriginPermitted(s) /\ slot[s].resp # TooMany =>
                              slot[s].resp = BadToken

\* C3's case: the right token under a mixed-case header name reaches the upstream
\* call while a wrong token is answered 401.
C3_Witness ==
    /\ cfg.SHARED_SECRET = Secret
    /\ cfg.AUTH_HEADER = "X-CH-Secret"
    /\ SentToken("c1") = Secret
    /\ slot["c1"].pc = "fetch"
    /\ slot["c1"].called
    /\ SentToken("c2") = "wrong"
    /\ slot["c2"].req.path = "/companies-house/:number"
    /\ slot["c2"].resp = BadToken

\* The request's input fails its handler's validation.
InvalidInput(s) ==
    LET req == slot[s].req
    IN  \/ req.path = "/companies-house/search"
           /\ (req.arg = Undefined \/ Len(req.arg) < 3)
        \/ req.path \in {"/companies-house/:number/officers", "/companies-house/:number"}
           /\ req.arg = ""

\* C4: a request whose input fails validation makes no upstream call and its
\* handler answers at once: 200 {items: []} for search and officers, 400
\* {error: "No company number"} for detail.  An upstream call is made only for a
\* search term of 3 or more characters or a non-empty number.
C4_Validation ==
    \A s \in Slots :
        /\ slot[s].pc # "idle" /\ InvalidInput(s) =>
               /\ ~slot[s].called
               /\ Answered(s)
               /\ HandlerRan(s) =>
                      slot[s].resp = IF slot[s].req.path = "/companies-house/:number"
                                     THEN NoNumber ELSE NoItems
        /\ slot[s].called =>
               \/ slot[s].req.path = "/companies-house/search" /\ Len(slot[s].req.arg) >= 3
               \/ slot[s].req.path \in {"/companies-house/:number/officers",
                                        "/companies-house/:number"}
                  /\ slot[s].req.arg # ""

\* C4's case: an authorised two-character search is answered with no items and an
\* authorised detail request with no number with 400, neither calling upstream.
C4_Witness ==
    /\ cfg.SHARED_SECRET = Secret
    /\ SentToken("c1") = Secret /\ SentToken("c2") = Secret
    /\ slot["c1"].req.path = "/companies-house/search" /\ slot["c1"].req.arg = "ab"
    /\ slot["c1"].resp = NoItems /\ ~slot["c1"].called
    /\ slot["c2"].req.path = "/companies-house/:number" /\ slot["c2"].req.arg = ""
    /\ slot["c2"].resp = NoNumber /\ ~slot["c2"].called

\* C5: the guards run in the order origin check, rate limiter, auth (skipped for
\* /health), handler, and a request stops at the first that rejects it: one that
\* fails the origin check is not counted; one over the limit is answered 429
\* whatever its token, the configuration or its path, /health included; one that
\* auth answers 401 or 500 has been counted by the limiter; /health within the
\* limit answers 200 {ok: true} with any token; any other request within the limit
\* reaches auth and, with the right token, its handler.
C5_GuardOrder ==
    \A s \in Slots :
        slot[s].pc # "idle" =>
            /\ ~OriginPermitted(s) =>
                   slot[s].nth = 0 /\ slot[s].resp.body = [cors |-> slot[s].req.origin]
            /\ OriginPermitted(s) =>
                   /\ slot[s].nth > 0
                   /\ slot[s].req.ip \in DOMAIN hits
                   /\ hits[slot[s].req.ip].count = slot[s].nth
            /\ OriginPermitted(s) /\ slot[s].nth > 60 => slot[s].resp = TooMany
            /\ slot[s].resp \in {BadToken, MissingSecret} =>
                   slot[s].nth >= 1 /\ slot[s].nth <= 60 /\ slot[s].req.path # "/health"
            /\ OriginPermitted(s) /\ slot[s].nth <= 60 /\ slot[s].req.path = "/health" =>
                   slot[s].resp = Alive
            /\ OriginPermitted(s) /\ slot[s].nth <= 60 /\ slot[s].req.path # "/health" =>
                   IF cfg.SHARED_SECRET = "" THEN slot[s].resp = MissingSecret
                   ELSE IF SentToken(s) # cfg.SHARED_SECRET THEN slot[s].resp = BadToken
                   ELSE HandlerRan(s)

\* C5's case: a /health request with a wrong token is its caller's 61st and is
\* answered 429.
C5_Witness ==
    /\ slot["c1"].req.path = "/health"
    /\ SentToken("c1") = "wrong"
    /\ slot["c1"].nth = 61
    /\ slot["c1"].resp = TooMany
    /\ cfg.SHARED_SECRET = ""

\* C6: when the upstream call completes with a non-success status s and body text
\* t, the caller is answered with status s and {error: "CH error", detail: t}; the
\* body is read as text, never parsed as JSON, and no items are returned.
C6_UpstreamError ==
    \A s \in Slots :
        /\ slot[s].pc = "text" => slot[s].status \notin 200..299
        /\ slot[s].pc = "json" => slot[s].status \in 200..299
        /\ Answered(s) /\ slot[s].status # 0 /\ slot[s].status \notin 200..299
             /\ slot[s].fail = "none" =>
               /\ slot[s].text # Undefined
               /\ slot[s].resp = [status |-> slot[s].status,
                                  body |-> [error |-> "CH error", detail |-> slot[s].text]]
               /\ slot[s].nresp = 1

\* C6's case: upstream answers the officers request with 404 "not found".
C6_Witness ==
    /\ slot["c1"].req.path = "/companies-house/:number/officers"
    /\ slot["c1"].status = 404
    /\ slot["c1"].resp = [status |-> 404, body |-> [error |-> "CH error", detail |-> "not found"]]

\* C7: when fetch, r.text() or r.json() throws, the caller is answered 500 with
\* {items: []} (search, officers) or {error: "Failed to fetch company details"}
\* (detail), once, and the handler ends.
C7_CaughtFailure ==
    \A s \in Slots :
        slot[s].fail # "none" =>
            /\ Answered(s)
            /\ slot[s].nresp = 1
            /\ slot[s].resp =
                   IF slot[s].req.path = "/companies-house/:number"
                   THEN [status |-> 500, body |-> [error |-> "Failed to fetch company details"]]
                   ELSE [status |-> 500, body |-> [items |-> <<>>]]

\* C7's case: the detail request's JSON parse failed and it was answered with the
\* fallback; a request that arrived after it has been answered 200 with items.
C7_Witness ==
    /\ slot["c1"].req.path = "/companies-house/:number"
    /\ slot["c1"].fail = "json"
    /\ slot["c1"].resp.status = 500
    /\ slot["c1"].nth = 1
    /\ slot["c2"].nth = 2
    /\ slot["c2"].req.path = "/companies-house/search"
    /\ slot["c2"].resp.status = 200
    /\ slot["c2"].called
    /\ Len(slot["c2"].resp.body.items) = 1

\* The count the table holds for a caller; none is 0.
Stored(ip) == IF ip \in DOMAIN hits THEN hits[ip].count ELSE 0

Counts(ip) == seen'[ip] # seen[ip]

\* C9: a caller's entry counts the requests seen since its windowStart, the one
\* that started the window and those answered 429 included; a request resets the
\* entry to count 1 at the current time exactly when it arrives more than 60 s
\* after windowStart, otherwise it adds 1; no request touches another caller's entry.
C9_Entry ==
    /\ \A ip \in Callers : ip \in DOMAIN hits =>
           hits[ip].count = seen[ip].n /\ hits[ip].ts = seen[ip].since
    /\ [][\A ip \in Callers :
             /\ ip \in DOMAIN hits' =>
                    hits'[ip].count = seen'[ip].n /\ hits'[ip].ts = seen'[ip].since
             /\ Counts(ip) /\ ip \in DOMAIN hits =>
                    IF now - hits[ip].ts > 60000
                    THEN hits'[ip] = [count |-> 1, ts |-> now]
                    ELSE hits'[ip] = [count |-> hits[ip].count + 1, ts |-> hits[ip].ts]
             /\ Counts(ip) /\ ip \notin DOMAIN hits =>
                    hits'[ip] = [count |-> 1, ts |-> now]
             /\ ~Counts(ip) =>
                    /\ ip \in DOMAIN hits' <=> ip \in DOMAIN hits
                    /\ ip \in DOMAIN hits => hits'[ip] = hits[ip]
         ]_vars

\* C9's case: one caller's window was restarted by a request 60001 ms after its
\* start, while the other caller's entry still counts 61 requests, one of them
\* answered 429, since time 0.
C9_Witness ==
    /\ now = 60001
    /\ "10.0.0.1" \in DOMAIN hits /\ "10.0.0.2" \in DOMAIN hits
    /\ hits["10.0.0.1"] = [count |-> 1, ts |-> 60001]
    /\ hits["10.0.0.2"] = [count |-> 61, ts |-> 0]
    /\ slot["c1"].req.ip = "10.0.0.1"

====
